---- MODULE Spec2Model ----
(***************************************************************************)
(* Model of ClangCoverage.py: the FileMapping class (sorted segments,      *)
(* per-line active segments, resolved line counts, maxCount) and the       *)
(* LoadCoverageCommand text command (input panel, export checks, region    *)
(* and phantom rendering, hide).                                           *)
(***************************************************************************)
EXTENDS Integers, Sequences, FiniteSets, TLC

\* ---------------------------------------------------------------- bounds
MaxLen == 3       \* longest segment list handed to FileMapping
MaxLine == 3      \* largest source line a segment starts on
MaxCol == 2       \* largest source column a segment starts on
MaxCount == 7     \* largest execution count a segment carries

\* A segment starts on the first or the last line, in the first or the last
\* column (both 1-based), and was executed never or MaxCount times.
Lines == {1, MaxLine}
Cols == {1, MaxCol}
Counts == {0, MaxCount}

\* ---------------------------------------------------------------- values
\* Segment = namedtuple('Segment', 'line col count hasCount isRegionEntry')
Segment(line, col, count, hasCount, isRegionEntry) ==
  [line |-> line, col |-> col, count |-> count,
   hasCount |-> hasCount, isRegionEntry |-> isRegionEntry]

\* The segments an export can carry within the bounds.  hasCount is never read
\* by the program, so it is drawn from a single value.
Segments ==
  {Segment(l, c, n, TRUE, e) : l \in Lines, c \in Cols, n \in Counts,
                               e \in BOOLEAN}

\* Python's range(start, end)
Range(start, end) == start..(end - 1)

Max2(a, b) == IF a >= b THEN a ELSE b

\* The smallest element of a non-empty set of integers
Kmin(S) == CHOOSE v \in S : \A w \in S : v <= w

\* The largest element of a non-empty set of integers
SetMax(S) == CHOOSE v \in S : \A w \in S : v >= w

\* ------------------------------------------------------ FileMapping.__init__
\* key = lambda x: (x.line, x.col), compared as tuples
PosKeyLess(a, b) == a.line < b.line \/ (a.line = b.line /\ a.col < b.col)

\* One insertion of a stable ascending sort: x goes after every element whose
\* key is not greater than its own.
RECURSIVE InsertByPos(_, _)
InsertByPos(s, x) ==
  IF s = <<>> THEN <<x>>
  ELSE IF PosKeyLess(x, Head(s)) THEN <<x>> \o s
  ELSE <<Head(s)>> \o InsertByPos(Tail(s), x)

\* SortByPos without the sort: the segments stay in the order they arrived
SortByPos_Unsorted(s) == s

\* sorted(segments, key = lambda x: (x.line, x.col)): stable, ascending
RECURSIVE SortByPos(_)
SortByPos(s) ==
  IF s = <<>> THEN <<>>
  ELSE InsertByPos(SortByPos(SubSeq(s, 1, Len(s) - 1)), s[Len(s)])

\* end = (seg.line+1) if seg.col > 0 else seg.line
LineEnd(seg) == IF seg.col > 0 THEN seg.line + 1 ELSE seg.line

\* for line in range(start, end): self.segmentsForLine[line].append(prev_seg)
\* segmentsForLine is a defaultdict(list): a missing key is created on access.
\* The lists hold references to the objects of self.segments; a reference is
\* modelled as the object's index in self.segments.
RegisterSpan(sfl, lines, ref) ==
  [l \in (DOMAIN sfl) \cup lines |->
     IF l \in lines
       THEN (IF l \in DOMAIN sfl THEN Append(sfl[l], ref) ELSE <<ref>>)
       ELSE sfl[l]]

\* Walk registering the current segment instead of the previous one
RECURSIVE Walk_RegistersCurrent(_, _, _)
Walk_RegistersCurrent(segs, i, sfl) ==
  IF i > Len(segs) THEN sfl
  ELSE Walk_RegistersCurrent(segs, i + 1,
            RegisterSpan(sfl, Range(segs[i-1].line, LineEnd(segs[i])), i))

\* The loop `for seg in self.segments` from its i-th iteration on; prev_seg is
\* segs[i-1] (None in the first iteration, which registers nothing).
RECURSIVE Walk(_, _, _)
Walk(segs, i, sfl) ==
  IF i > Len(segs) THEN sfl
  ELSE Walk(segs, i + 1,
            RegisterSpan(sfl, Range(segs[i-1].line, LineEnd(segs[i])), i - 1))

\* EntryKeyLess with the key's fields swapped: (count, isRegionEntry)
EntryKeyLess_CountFirst(a, b) ==
  \/ a.count < b.count
  \/ (a.count = b.count /\ ~a.isRegionEntry /\ b.isRegionEntry)

\* sort_by_entry = lambda x : (x.isRegionEntry, x.count), compared as tuples
\* (False < True)
EntryKeyLess(a, b) ==
  \/ (~a.isRegionEntry /\ b.isRegionEntry)
  \/ (a.isRegionEntry = b.isRegionEntry /\ a.count < b.count)

\* One insertion of a stable descending sort (reverse = True keeps the
\* original order of elements with equal keys).
RECURSIVE InsertByEntry(_, _)
InsertByEntry(s, x) ==
  IF s = <<>> THEN <<x>>
  ELSE IF EntryKeyLess(Head(s), x) THEN <<x>> \o s
  ELSE <<Head(s)>> \o InsertByEntry(Tail(s), x)

\* prioritized = sorted(segments, key = sort_by_entry, reverse = True)
RECURSIVE Prioritized(_)
Prioritized(s) ==
  IF s = <<>> THEN <<>>
  ELSE InsertByEntry(Prioritized(SubSeq(s, 1, Len(s) - 1)), s[Len(s)])

\* The segment objects a list of references denotes
Deref(segs, refs) == [k \in 1..Len(refs) |-> segs[refs[k]]]

\* ResolveCounts over the lines that have a region entry only
ResolveCounts_EntriesOnly(segs, sfl) ==
  [l \in {x \in DOMAIN sfl : \E k \in 1..Len(sfl[x]) : segs[sfl[x][k]].isRegionEntry}
     |-> Prioritized(Deref(segs, sfl[l]))[1].count]

\* self.lineCounts[line] = prioritized[0].count, for every key of segmentsForLine
ResolveCounts(segs, sfl) ==
  [l \in DOMAIN sfl |-> Prioritized(Deref(segs, sfl[l]))[1].count]

\* RunningMax without the max: maxCount ends as the count of the last line
RunningMax_KeepsLast(counts, lines, acc) ==
  IF lines = {} THEN acc ELSE counts[SetMax(lines)]

\* self.maxCount = max(self.maxCount, prioritized[0].count), starting from 0,
\* over the given lines
RECURSIVE RunningMax(_, _, _)
RunningMax(counts, lines, acc) ==
  IF lines = {} THEN acc
  ELSE LET l == CHOOSE x \in lines : TRUE
       IN RunningMax(counts, lines \ {l}, Max2(acc, counts[l]))

\* FileMapping(name, segments)
FileMapping(name, segments) ==
  LET segs == SortByPos(segments)
      sfl == Walk(segs, 2, <<>>)
      counts == ResolveCounts(segs, sfl)
  IN [name |-> name,
      segments |-> segs,
      segmentsForLine |-> sfl,
      lineCounts |-> counts,
      maxCount |-> RunningMax(counts, DOMAIN counts, 0)]

\* ------------------------------------------------------ FileMapping queries
\* An optional integer: None is the empty sequence, an integer n is <<n>>.
None == <<>>
Some(n) == <<n>>

\* lineCount with 0 as the default: self.lineCounts.get(line, 0)
lineCount_ZeroDefault(self, line) ==
  [ret |-> IF line \in DOMAIN self.lineCounts
             THEN Some(self.lineCounts[line]) ELSE Some(0),
   self |-> self]

\* def lineCount(self, line): return self.lineCounts.get(line, None)
\* Returns the value and the object as the call leaves it.
lineCount(self, line) ==
  [ret |-> IF line \in DOMAIN self.lineCounts
             THEN Some(self.lineCounts[line]) ELSE None,
   self |-> self]

\* def countedLines(self): yields every (line, cnt) of self.lineCounts.items();
\* the pairs are collected as a set, the order of iteration is not modelled.
countedLines(self) ==
  [ret |-> {<<l, self.lineCounts[l]>> : l \in DOMAIN self.lineCounts},
   self |-> self]

\* ------------------------------------------------------ the view's buffer
\* Every line of the buffer holds as many characters as a segment can have
\* columns, and a newline; the buffer has one line more than the coverage data
\* can mention.
LineWidth == SetMax(Cols) + 1
ViewLines == SetMax(Lines) + 1
ViewSize == ViewLines * LineWidth - 1

\* view.text_point(row, col): the offset of a 0-based row and column
text_point(row, col) == row * LineWidth + col

\* view.rowcol(point)[0]
RowOf(point) == point \div LineWidth

\* view.line(point): the region of the line containing point, newline excluded
LineRegion(point) ==
  [a |-> RowOf(point) * LineWidth, b |-> RowOf(point) * LineWidth + LineWidth - 1]

\* sublime.Region(start, end)
Region(start, end) == [a |-> start, b |-> end]

\* ------------------------------------------------------ draw_uncovered_segments
\* seg_pair_to_region((a, b))
seg_pair_to_region(a, b) ==
  Region(text_point(a.line - 1, a.col - 1), text_point(b.line - 1, b.col - 1))

\* IsUncovered without the region-entry test
IsUncovered_AnyZero(a, b) == a.count = 0

\* lambda pair: pair[0].count == 0 and pair[0].isRegionEntry
IsUncovered(a, b) == a.count = 0 /\ a.isRegionEntry

\* list(map(seg_pair_to_region, filter(..., zip(segments, segments[1:]))))
\* from the i-th pair on
RECURSIVE RegionsFrom(_, _)
RegionsFrom(segs, i) ==
  IF i + 1 > Len(segs) THEN <<>>
  ELSE (IF IsUncovered(segs[i], segs[i+1])
          THEN <<seg_pair_to_region(segs[i], segs[i+1])>> ELSE <<>>)
       \o RegionsFrom(segs, i + 1)

UncoveredRegions(mapping) == RegionsFrom(mapping.segments, 1)

\* ------------------------------------------------------ draw_line_counts
\* str(n) for n >= 0: the decimal digits, most significant first
RECURSIVE Str(_)
Str(n) == IF n < 10 THEN <<n>> ELSE Str(n \div 10) \o <<n % 10>>

\* max_len = max(4, len(str(mapping.maxCount)))
MaxLenOf(mapping) == Max2(4, Len(Str(mapping.maxCount)))

\* create_phantom_count(line_idx): the phantom's region and the parts its
\* content is formatted from (colour, number of padding entities, digits)
create_phantom_count(mapping, line_idx) ==
  LET cnt == lineCount(mapping, line_idx + 1).ret
      color == IF cnt = Some(0) THEN "invalid.background" ELSE "comment.foreground"
      str_cnt == IF cnt # None THEN Str(cnt[1]) ELSE <<>>
      pad_len == MaxLenOf(mapping) - Len(str_cnt)
  IN [region |-> LineRegion(text_point(line_idx, 0)),
      color |-> color, pad |-> pad_len, text |-> str_cnt]

\* tot_lines, _ = view.rowcol(view.size()); one phantom per line index
\* 0 .. tot_lines
LineCountPhantoms(mapping) ==
  [k \in 1..(RowOf(ViewSize) + 1) |-> create_phantom_count(mapping, k - 1)]

\* ================================================================= state
VARIABLES
  input,       \* the segments of the export's file record, in position order
  built,       \* TRUE once FileMapping.__init__ has run
  mapping,     \* the FileMapping object (name, segments, segmentsForLine,
               \* lineCounts, maxCount)
  call,        \* the last query made on the mapping and what it returned
  read_only,   \* view.is_read_only()
  regions,     \* the view's regions under REGION_KEY
  phantoms,    \* the view's phantoms under PHANTOM_SET_KEY
  panel,       \* TRUE while the input panel of run(show = True) is open
  attempt,     \* since the panel last opened: what the export read by
               \* on_done looked like and the last line on_done printed
  last         \* the last command that changed the view, its mapping, and
               \* whether the view had highlighted regions when it ran

mvars == <<input, built, mapping, call>>
view == <<read_only, regions, phantoms>>
cvars == <<read_only, regions, phantoms, panel, attempt, last>>
vars == <<input, built, mapping, call, read_only, regions, phantoms, panel,
          attempt, last>>

CurrentFile == "a.c"

\* The attributes of a FileMapping before __init__ has assigned them
Unbuilt ==
  [name |-> "", segments |-> <<>>, segmentsForLine |-> <<>>,
   lineCounts |-> <<>>, maxCount |-> 0]

NoCall == [op |-> "none", arg |-> 0, ret |-> <<>>]
NoAttempt ==
  [type |-> FALSE, version |-> "", matched |-> FALSE, wellformed |-> FALSE,
   printed |-> ""]
NoLast == [cmd |-> "none", mapping |-> Unbuilt, replaced |-> FALSE]

\* The command object after LoadCoverageCommand.__init__ on a fresh view
ViewInit ==
  /\ read_only = FALSE
  /\ regions = <<>>
  /\ phantoms = <<>>
  /\ panel = FALSE
  /\ attempt = NoAttempt
  /\ last = NoLast

\* Sequences over S of length at most n
SeqsUpTo(S, n) == UNION {[1..k -> S] : k \in 0..n}

\* A segment list whose positions never decrease
InPosOrder(s) == \A i \in 1..(Len(s) - 1) : ~PosKeyLess(s[i+1], s[i])

\* The permutations of 1..n
Perms(n) == {f \in [1..n -> 1..n] : \A i, j \in 1..n : f[i] = f[j] => i = j}

Permuted(s, f) == [k \in 1..Len(s) |-> s[f[k]]]

\* ------------------------------------------------- FileMapping, on its own
\* Every multiset of at most MaxLen segments, listed in position order (with
\* every order of the segments that share a position).
Init ==
  /\ input \in {s \in SeqsUpTo(Segments, MaxLen) : InPosOrder(s)}
  /\ built = FALSE
  /\ mapping = Unbuilt
  /\ call = NoCall
  /\ ViewInit

\* mapping = FileMapping(file['filename'], segments), the segments arriving in
\* any order; call.arg records whether they arrived out of position order
Construct ==
  /\ ~built
  /\ \E f \in Perms(Len(input)) :
       /\ mapping' = FileMapping(CurrentFile, Permuted(input, f))
       /\ call' = [op |-> "FileMapping",
                   arg |-> IF Permuted(input, f) = input THEN 0 ELSE 1,
                   ret |-> None]
  /\ built' = TRUE
  /\ UNCHANGED input
  /\ UNCHANGED cvars

\* mapping.lineCount(line), for the lines draw_line_counts asks about
LineCount ==
  /\ built
  /\ \E line \in 1..ViewLines :
       LET r == lineCount(mapping, line)
       IN /\ call' = [op |-> "lineCount", arg |-> line, ret |-> r.ret]
          /\ mapping' = r.self
  /\ UNCHANGED <<input, built>>
  /\ UNCHANGED cvars

\* list(mapping.countedLines())
CountedLines ==
  /\ built
  /\ LET r == countedLines(mapping)
     IN /\ call' = [op |-> "countedLines", arg |-> 0, ret |-> r.ret]
        /\ mapping' = r.self
  /\ UNCHANGED <<input, built>>
  /\ UNCHANGED cvars

\* draw_uncovered_segments(mapping): the list `regions` it builds and prints
\* replaces the view's regions under REGION_KEY (erase_regions, add_regions)
draw_uncovered_segments(m) == UncoveredRegions(m)

\* draw_line_counts(mapping): phantom_set.update(phantoms) makes the phantoms
\* of the set exactly the new list
draw_line_counts(m) == LineCountPhantoms(m)

\* The list `regions` that draw_uncovered_segments(mapping) builds and prints
\* (the view it is then drawn on belongs to SpecView)
DrawUncovered ==
  /\ built
  /\ call' = [op |-> "draw_uncovered_segments", arg |-> 0,
              ret |-> draw_uncovered_segments(mapping)]
  /\ UNCHANGED <<input, built, mapping>>
  /\ UNCHANGED cvars

Next == Construct \/ LineCount \/ CountedLines \/ DrawUncovered

Spec == Init /\ [][Next]_vars

\* ================================================ LoadCoverageCommand
\* The JSON list of a segment, as the export writes it
TupleOf(seg) == <<seg.line, seg.col, seg.count, seg.hasCount, seg.isRegionEntry>>

\* Segment(*x): a namedtuple of exactly five fields (TypeError otherwise)
SegmentArityOk(x) == Len(x) = 5

SegmentOf(x) == Segment(x[1], x[2], x[3], x[4], x[5])

GoodTuples == {TupleOf(seg) : seg \in Segments}

\* Segment lists with a tuple of the wrong arity
BadLists ==
  {<<<<1, 1, 0, TRUE>>>>,
   <<<<1, 1, 0, TRUE, TRUE>>, <<3, 1, 7, TRUE, FALSE, FALSE>>>>,
   <<<<1, 2, 0>>, <<3, 1, 7, TRUE, FALSE>>>>}

\* The `segments` lists of the file records: every list of at most two
\* well-formed tuples, and the malformed ones
TupleLists == SeqsUpTo(GoodTuples, 2) \cup BadLists

FileRecord(filename, segments) == [filename |-> filename, segments |-> segments]

SomeList == <<<<1, 1, 0, TRUE, TRUE>>, <<3, 2, 7, TRUE, FALSE>>>>

\* `files` lists without, and with, a record for the current file
FilesUnmatched == {<<>>, <<FileRecord("b.c", SomeList)>>}

FilesMatched ==
  {<<FileRecord(CurrentFile, l)>> : l \in TupleLists}
    \cup {<<FileRecord("b.c", SomeList), FileRecord(CurrentFile, l)>> : l \in BadLists \cup {<<>>, SomeList}}
    \cup {<<FileRecord(CurrentFile, l), FileRecord(CurrentFile, SomeList)>> : l \in BadLists \cup {<<>>}}

\* The exports on_done can find at the path: `type` says whether the key is
\* present, `version` is "absent" or the value of the key, `files` is
\* json_root['data'][0]['files'].  Every header comes with a few `files`
\* lists; the supported header comes with all of them.
Exports ==
  {[type |-> t, version |-> v, files |-> f] :
     t \in BOOLEAN, v \in {"absent", "1.0.0", "2.0.0"},
     f \in FilesUnmatched \cup {<<FileRecord(CurrentFile, SomeList)>>,
                                <<FileRecord(CurrentFile, <<<<1, 1, 0, TRUE>>>>)>>}}
    \cup {[type |-> TRUE, version |-> "2.0.0", files |-> f] : f \in FilesMatched}

\* if 'type' not in json_root or 'version' not in json_root
LooksLikeCoverage(json_root) == json_root.type /\ json_root.version # "absent"

\* SupportedVersion that accepts every version present
SupportedVersion_Any(ver) == ver # "absent"

\* ver != "2.0.0" is the unsupported case
SupportedVersion(ver) == ver = "2.0.0"

\* next(filter(match_file, data['files'])): the index of the first record
\* whose filename is the current file, 0 for StopIteration
RECURSIVE NextMatch(_, _)
NextMatch(files, i) ==
  IF i > Len(files) THEN 0
  ELSE IF files[i].filename = CurrentFile THEN i
  ELSE NextMatch(files, i + 1)

\* map(lambda x : Segment(*x), file['segments']), consumed by sorted()
MapSegments(tuples) == [k \in 1..Len(tuples) |-> SegmentOf(tuples[k])]

AllArityOk(tuples) == \A k \in 1..Len(tuples) : SegmentArityOk(tuples[k])

\* The view API, as the command uses it
set_read_only(flag) == flag
erase_regions(rs) == <<>>
\* add_regions(key, regions, ...): the regions of the key are overwritten
add_regions(rs, new) == new
erase_phantoms(ps) == <<>>
\* PhantomSet.update(phantoms): the set holds exactly the new phantoms
phantom_set_update(ps, new) == new

\* show_coverage(mapping): the view (read_only, regions, phantoms) it leaves
show_coverage(v, m) ==
  [read_only |-> set_read_only(TRUE),
   regions |-> add_regions(erase_regions(v.regions), draw_uncovered_segments(m)),
   phantoms |-> phantom_set_update(v.phantoms, draw_line_counts(m))]

\* hide_coverage without view.erase_phantoms
hide_coverage_KeepsPhantoms(v) ==
  [read_only |-> set_read_only(FALSE),
   regions |-> erase_regions(v.regions),
   phantoms |-> v.phantoms]

\* run(edit, show = False): the view it leaves
hide_coverage(v) ==
  [read_only |-> set_read_only(FALSE),
   regions |-> erase_regions(v.regions),
   phantoms |-> erase_phantoms(v.phantoms)]

TheView == [read_only |-> read_only, regions |-> regions, phantoms |-> phantoms]

SetView(v) ==
  /\ read_only' = v.read_only
  /\ regions' = v.regions
  /\ phantoms' = v.phantoms

\* What the export looked like, read off the export alone, and the last
\* "[Coverage] ..." line on_done printed for it
Digest(json_root, printed) ==
  LET cur == {i \in 1..Len(json_root.files) : json_root.files[i].filename = CurrentFile}
  IN [type |-> json_root.type,
      version |-> json_root.version,
      matched |-> cur # {},
      wellformed |-> cur # {} /\
         \A k \in 1..Len(json_root.files[Kmin(cur)].segments) :
            Len(json_root.files[Kmin(cur)].segments[k]) = 5,
      printed |-> printed]

\* run(edit, show = True): the input panel opens
RunShow ==
  /\ panel' = TRUE
  /\ attempt' = NoAttempt
  /\ UNCHANGED <<read_only, regions, phantoms, last>>
  /\ UNCHANGED mvars

\* run(edit, show = False)
RunHide ==
  /\ SetView(hide_coverage(TheView))
  /\ last' = [cmd |-> "hide", mapping |-> Unbuilt, replaced |-> regions # <<>>]
  /\ UNCHANGED <<panel, attempt>>
  /\ UNCHANGED mvars

\* The panel is dismissed: its on_change and on_cancel callbacks are None
PanelCancel ==
  /\ panel
  /\ panel' = FALSE
  /\ UNCHANGED <<read_only, regions, phantoms, attempt, last>>
  /\ UNCHANGED mvars

\* on_done(path), the export at the path being any of Exports
OnDone ==
  /\ panel
  /\ panel' = FALSE
  /\ \E json_root \in Exports :
       IF ~LooksLikeCoverage(json_root)
         THEN /\ attempt' = Digest(json_root, "This doesn't look like a clang coverage JSON")
              /\ UNCHANGED <<read_only, regions, phantoms, last>>
       ELSE IF ~SupportedVersion(json_root.version)
         THEN /\ attempt' = Digest(json_root, "Unsupported coverage export version")
              /\ UNCHANGED <<read_only, regions, phantoms, last>>
       ELSE IF NextMatch(json_root.files, 1) = 0
         THEN /\ attempt' = Digest(json_root, "Couldn't find a matching file")
              /\ UNCHANGED <<read_only, regions, phantoms, last>>
       ELSE LET file == json_root.files[NextMatch(json_root.files, 1)]
            IN IF ~AllArityOk(file.segments)
                 \* TypeError out of sorted(): on_done ends inside FileMapping()
                 THEN /\ attempt' = Digest(json_root, "Opening")
                      /\ UNCHANGED <<read_only, regions, phantoms, last>>
                 ELSE LET m == FileMapping(file.filename, MapSegments(file.segments))
                      IN /\ attempt' = Digest(json_root, "Showing coverage")
                         /\ SetView(show_coverage(TheView, m))
                         /\ last' = [cmd |-> "load", mapping |-> m,
                                     replaced |-> regions # <<>>]
  /\ UNCHANGED mvars

ViewStart ==
  /\ input = <<>>
  /\ built = FALSE
  /\ mapping = Unbuilt
  /\ call = NoCall
  /\ ViewInit

ViewNext == RunShow \/ RunHide \/ PanelCancel \/ OnDone

SpecView == ViewStart /\ [][ViewNext]_vars

\* ================================================================= claims
\* The segment objects registered as active on a line
ActiveRefs(m, line) ==
  IF line \in DOMAIN m.segmentsForLine
    THEN {m.segmentsForLine[line][k] : k \in 1..Len(m.segmentsForLine[line])}
    ELSE {}

Active(m, line) == {m.segments[r] : r \in ActiveRefs(m, line)}

\* Every line a question can be asked about
AllLines == 0..(ViewLines + 1)

\* The end of the span the specification gives the segment before cur
ClaimedEnd(cur) == IF cur.col > 1 THEN cur.line + 1 ELSE cur.line

\* C1: for every pair of consecutive segments (prev, cur) of the sorted
\* sequence, prev is registered as active on exactly the lines of
\* [prev.line, end), with end = cur.line + 1 if cur.col > 1 and end = cur.line
\* if cur.col = 1; so [(1,1,0,true,true), (3,1,7,true,false)] gives
\* lineCounts = {1:0, 2:0} and maxCount = 0.
C1_SpanHalfOpen ==
  built =>
    /\ \A i \in 1..(Len(mapping.segments) - 1) : \A line \in AllLines :
         (i \in ActiveRefs(mapping, line))
           <=> (line \in Range(mapping.segments[i].line,
                               ClaimedEnd(mapping.segments[i+1])))
    /\ (mapping.segments = <<Segment(1, 1, 0, TRUE, TRUE), Segment(3, 1, 7, TRUE, FALSE)>>
          => mapping.lineCounts = (1 :> 0 @@ 2 :> 0) /\ mapping.maxCount = 0)

\* C2: every permutation of the same multiset of segments yields the same
\* lineCounts and the same maxCount (here: the mapping built from the segments
\* in whatever order they arrived agrees with the one built from them in the
\* order of `input`).
C2_PermutationInvariant ==
  built =>
    /\ mapping.lineCounts = FileMapping(CurrentFile, input).lineCounts
    /\ mapping.maxCount = FileMapping(CurrentFile, input).maxCount

\* No two segments of the list share a (line, col) position
DistinctPositions(s) ==
  \A i, j \in 1..Len(s) : (s[i].line = s[j].line /\ s[i].col = s[j].col) => i = j

\* C2 (amended): for segments with pairwise distinct (line, col) positions,
\* every permutation of the input yields the same sorted segments, the same
\* lineCounts and the same maxCount.
C2_PermutationInvariantDistinct ==
  (built /\ DistinctPositions(input)) =>
    /\ mapping.segments = input
    /\ mapping.lineCounts = FileMapping(CurrentFile, input).lineCounts
    /\ mapping.maxCount = FileMapping(CurrentFile, input).maxCount

\* C2 witness: three segments at distinct positions arrived out of order
C2_Witness ==
  /\ built
  /\ call.op = "FileMapping" /\ call.arg = 1
  /\ Len(input) = 3 /\ DistinctPositions(input)
  /\ DOMAIN mapping.lineCounts # {}

\* C3: on every line with an active segment, lineCounts[line] is the count of
\* the active segment that is greatest in (isRegionEntry, count): the largest
\* count among the active region entries if there is one, else the largest
\* count among all active segments.
C3_DominantCount ==
  built =>
    \A line \in DOMAIN mapping.segmentsForLine :
      LET act == Active(mapping, line)
          entries == {s \in act : s.isRegionEntry}
      IN /\ act # {}
         /\ line \in DOMAIN mapping.lineCounts
         /\ mapping.lineCounts[line] =
              IF entries # {} THEN SetMax({s.count : s \in entries})
              ELSE SetMax({s.count : s \in act})

\* C3 witness: a line where a region entry beats a non-entry of higher count
C3_Witness ==
  /\ built
  /\ \E line \in DOMAIN mapping.lineCounts :
       \E s, t \in Active(mapping, line) :
         /\ s.isRegionEntry /\ ~t.isRegionEntry /\ t.count > s.count
         /\ mapping.lineCounts[line] = s.count

\* The indices of the pairs (segments[i], segments[i+1]) that start uncovered
Qualifying(m) ==
  {i \in 1..(Len(m.segments) - 1) :
     m.segments[i].count = 0 /\ m.segments[i].isRegionEntry = TRUE}

\* The k-th smallest element of a set of integers
Kth(S, k) == CHOOSE i \in S : Cardinality({j \in S : j < i}) = k - 1

\* The offset in the buffer of a segment's 1-based (line, col)
PointOf(seg) == (seg.line - 1) * LineWidth + (seg.col - 1)

\* C4: the region list holds exactly one region, from a's position to b's,
\* for each consecutive pair (a, b) of the sorted segments with a.count = 0 and
\* a a region entry, none for any other pair, in the order of the segments;
\* contiguous regions are not merged.
C4_UncoveredRegions ==
  (built /\ call.op = "draw_uncovered_segments") =>
    LET Q == Qualifying(mapping)
    IN /\ Len(call.ret) = Cardinality(Q)
       /\ \A k \in 1..Len(call.ret) :
            LET i == Kth(Q, k)
            IN /\ call.ret[k].a = PointOf(mapping.segments[i])
               /\ call.ret[k].b = PointOf(mapping.segments[i+1])
       /\ \A k \in 1..(Len(call.ret) - 1) : call.ret[k].a <= call.ret[k+1].a

\* C4 witness: two contiguous regions listed separately, and a pair that
\* yields none
C4_Witness ==
  /\ built /\ call.op = "draw_uncovered_segments"
  /\ Len(call.ret) = 2
  /\ call.ret[1].b = call.ret[2].a
  /\ call.ret[1].a < call.ret[1].b
  /\ Len(mapping.segments) = 3

\* C6: the last segment of the sorted sequence is never registered as active
\* on any line, so an empty input and every single-segment input construct and
\* give lineCounts = {} and maxCount = 0.
C6_LastNeverRegistered ==
  built =>
    /\ \A line \in AllLines : Len(mapping.segments) \notin ActiveRefs(mapping, line)
    /\ (Len(input) < 2 =>
          /\ Len(mapping.segments) = Len(input)
          /\ mapping.segmentsForLine = <<>>
          /\ mapping.lineCounts = <<>>
          /\ mapping.maxCount = 0)

\* C6 witness: a mapping built from a single segment with a positive count
C6_Witness ==
  /\ built
  /\ Len(input) = 1 /\ input[1].count > 0 /\ input[1].isRegionEntry
  /\ mapping.segments = input

\* C7: lineCount(line) returns the resolved count (possibly 0) when the line
\* has an active segment and None, which is not 0, when it has none; the query
\* adds no entry to lineCounts or segmentsForLine.
C7_LineCountNoData ==
  (built /\ call.op = "lineCount") =>
    /\ None # Some(0)
    /\ (Active(mapping, call.arg) # {}
          => /\ call.arg \in DOMAIN mapping.lineCounts
             /\ call.ret = Some(mapping.lineCounts[call.arg]))
    /\ (Active(mapping, call.arg) = {}
          => /\ call.ret = None
             /\ call.arg \notin DOMAIN mapping.lineCounts
             /\ call.arg \notin DOMAIN mapping.segmentsForLine)

\* C7 witness: one mapping with a line counted 0 and a line without data, the
\* query having just been made on the line without data
C7_Witness ==
  /\ built /\ call.op = "lineCount"
  /\ call.ret = None
  /\ call.arg < ViewLines
  /\ \E line \in DOMAIN mapping.lineCounts : mapping.lineCounts[line] = 0

\* C8: maxCount is the largest value of lineCounts, and 0 when lineCounts is
\* empty, also after any sequence of queries.
C8_MaxCount ==
  built =>
    mapping.maxCount =
      IF DOMAIN mapping.lineCounts = {} THEN 0
      ELSE SetMax({mapping.lineCounts[l] : l \in DOMAIN mapping.lineCounts})

\* C8 witness: after a query, a mapping whose lines resolve to different
\* counts, the smaller one on the later line
C8_Witness ==
  /\ built /\ call.op \in {"lineCount", "countedLines"}
  /\ \E l1, l2 \in DOMAIN mapping.lineCounts :
       l1 < l2 /\ mapping.lineCounts[l1] > mapping.lineCounts[l2]
  /\ mapping.maxCount > 0

\* C9: the keys of lineCounts are exactly the keys of segmentsForLine, also
\* after any sequence of queries.
C9_KeySets ==
  DOMAIN mapping.lineCounts = DOMAIN mapping.segmentsForLine

\* C9 witness: after a query for a line without data, a mapping with counted
\* lines
C9_Witness ==
  /\ built /\ call.op = "lineCount" /\ call.ret = None
  /\ DOMAIN mapping.segmentsForLine # {}
  /\ call.arg \notin DOMAIN mapping.segmentsForLine

\* What C5 calls a failed load
ClaimedFailure(a) ==
  \/ ~a.type
  \/ a.version = "absent"
  \/ a.version # "2.0.0"
  \/ ~a.matched
  \/ ~a.wellformed

\* C5: when the export lacks `type` or `version`, or its version is not
\* "2.0.0", or no file record matches the current file, or a segment tuple is
\* malformed, on_done hands no mapping to rendering and leaves the view's
\* read-only flag, regions and phantoms as they were.
C5_FailedLoadUntouched ==
  [][(panel /\ ~panel' /\ attempt'.printed # "" /\ ClaimedFailure(attempt'))
       => /\ read_only' = read_only
          /\ regions' = regions
          /\ phantoms' = phantoms
          /\ last' = last
          /\ attempt'.printed # "Showing coverage"]_vars

\* C5 witness: on a view that shows coverage, on_done has just read a
\* supported export whose matching file has a malformed tuple
C5_Witness ==
  /\ ~panel
  /\ attempt.type /\ attempt.version = "2.0.0" /\ attempt.matched
  /\ ~attempt.wellformed
  /\ attempt.printed = "Opening"
  /\ last.cmd = "load" /\ read_only /\ regions # <<>>

\* C10: if the last command that changed the view was a successful load of
\* M, the view is read-only and shows exactly the regions and phantoms of M;
\* if it was a hide, the view is writable with no regions and no phantoms.
C10_LastWriterWins ==
  /\ (last.cmd = "load" =>
        /\ read_only = TRUE
        /\ regions = UncoveredRegions(last.mapping)
        /\ phantoms = LineCountPhantoms(last.mapping))
  /\ (last.cmd = "hide" =>
        /\ read_only = FALSE
        /\ regions = <<>>
        /\ phantoms = <<>>)

\* C10 witness: a load without uncovered regions replaced a view that had
\* highlighted regions
C10_Witness ==
  /\ last.cmd = "load" /\ last.replaced
  /\ regions = <<>>
  /\ Len(last.mapping.segments) = 2
  /\ read_only

====
